---- MODULE Spec2Model ----
(***************************************************************************)
(* Model of src/main.py: the quiz construction pipeline (create_quiz), the *)
(* morpheme selector (extract_morphemes) and the distractor adapter        *)
(* (generate_alternatives).                                                *)
(*                                                                         *)
(* A Python str is a sequence of one-character strings; a Python list is a *)
(* sequence.  The two external services (the generative model and the      *)
(* spaCy pipeline) are oracles: every answer they can give, within the     *)
(* bounds below, is a nondeterministic choice.                             *)
(***************************************************************************)
EXTENDS Integers, Sequences, FiniteSets, TLC

VARIABLES
    pc,                 \* position in the function being run
    oracle_text,        \* what the passage oracle answered (history)
    response,           \* create_quiz: response
    target_morphemes,   \* create_quiz: target_morphemes
    i,                  \* create_quiz: loop index (morphemes processed so far)
    quiz_items,         \* create_quiz: quiz_items
    masked_text,        \* create_quiz: masked_text
    ret,                \* create_quiz: the returned tuple (<<>> before return)
    nlp_calls,          \* number of annotation requests issued (history)
    alt_calls,          \* number of distractor requests issued (history)
    failed,             \* processing indices whose distractor request raised (history)
    substituted,        \* <<index, morpheme>> pairs whose placeholder entered the text (history)
    doc,                \* extract_morphemes: the annotated tokens
    num_morphemes,      \* extract_morphemes: num_morphemes
    compounds,          \* extract_morphemes: compounds after the filter loop
    ranked,             \* extract_morphemes: compounds after the sort
    selected,           \* extract_morphemes: its outcome
    prev_text,          \* masking step: the text before the step
    morpheme,           \* masking step: the morpheme
    index               \* masking step: the processing index

vars == <<pc, oracle_text, response, target_morphemes, i, quiz_items, masked_text,
          ret, nlp_calls, alt_calls, failed, substituted, doc, num_morphemes,
          compounds, ranked, selected, prev_text, morpheme, index>>

pipelineVars == <<oracle_text, response, target_morphemes, i, quiz_items, ret,
                  nlp_calls, alt_calls, failed, substituted>>
selectVars == <<doc, num_morphemes, compounds, ranked, selected>>
maskVars == <<prev_text, morpheme, index>>

(***************************************************************************)
(* Bounds of the model.                                                    *)
(***************************************************************************)
MaxPassageLen == 5      \* characters in a passage the oracle returns
MaxParts == 4           \* '|'-separated parts in a distractor answer
MaxDraw == 1            \* random draws explored: 0..MaxDraw-1 and the largest
MaxHead == 1            \* free tokens in front of the corpus (selector inputs)
MaxFiller == 12         \* corpus tokens in a selector input
MaxCount == 12          \* largest num_morphemes given to the selector
MaxTokens == 3          \* tokens in an input of the filter and ranking stages
MaxTextLen == 7         \* characters of the text given to one masking step

(***************************************************************************)
(* Program constants.                                                      *)
(***************************************************************************)
MinLen == 2                 \* len(token.text) >= 2
TopN == 10                  \* morphemes[:10]
DefaultNumMorphemes == 10   \* num_morphemes: int = 10
MaxAlternatives == 3        \* alternatives[:3]

(***************************************************************************)
(* Python str operations.                                                  *)
(***************************************************************************)
IsSpace(c) == c = " "

RECURSIVE LStrip(_)
LStrip(s) == IF s # <<>> /\ IsSpace(Head(s)) THEN LStrip(Tail(s)) ELSE s

RECURSIVE RStrip(_)
RStrip(s) ==
    IF s # <<>> /\ IsSpace(s[Len(s)]) THEN RStrip(SubSeq(s, 1, Len(s) - 1)) ELSE s

\* str.strip()
Strip(s) == RStrip(LStrip(s))

\* old occurs in s at position pos
MatchAt(s, old, pos) ==
    /\ pos + Len(old) - 1 <= Len(s)
    /\ \A j \in 1..Len(old) : s[pos + j - 1] = old[j]

RECURSIVE ReplaceFrom(_, _, _, _)
ReplaceFrom(s, old, new, pos) ==
    IF pos > Len(s) THEN <<>>
    ELSE IF MatchAt(s, old, pos)
         THEN new \o ReplaceFrom(s, old, new, pos + Len(old))
         ELSE <<s[pos]>> \o ReplaceFrom(s, old, new, pos + 1)

RECURSIVE ReplaceFirstFrom(_, _, _, _)
ReplaceFirstFrom(s, old, new, pos) ==
    IF pos > Len(s) THEN <<>>
    ELSE IF MatchAt(s, old, pos)
         THEN new \o SubSeq(s, pos + Len(old), Len(s))
         ELSE <<s[pos]>> \o ReplaceFirstFrom(s, old, new, pos + 1)

ReplaceFirst(s, old, new) == ReplaceFirstFrom(s, old, new, 1)

\* str.replace(old, new) for a non-empty old: the non-overlapping occurrences,
\* found left to right, are replaced
Replace(s, old, new) == ReplaceFrom(s, old, new, 1)

RECURSIVE CountFrom(_, _, _)
CountFrom(s, sub, pos) ==
    IF pos > Len(s) THEN 0
    ELSE IF MatchAt(s, sub, pos)
         THEN 1 + CountFrom(s, sub, pos + Len(sub))
         ELSE CountFrom(s, sub, pos + 1)

\* str.count(sub) for a non-empty sub: the non-overlapping occurrences
Count(s, sub) == CountFrom(s, sub, 1)

\* sub in s
Contains(s, sub) == \E pos \in 1..Len(s) : MatchAt(s, sub, pos)

RECURSIVE SplitAcc(_, _, _)
SplitAcc(s, sep, cur) ==
    IF s = <<>> THEN <<cur>>
    ELSE IF Head(s) = sep
         THEN <<cur>> \o SplitAcc(Tail(s), sep, <<>>)
         ELSE SplitAcc(Tail(s), sep, Append(cur, Head(s)))

\* str.split(sep) for a one-character sep
Split(s, sep) == SplitAcc(s, sep, <<>>)

RECURSIVE Join(_, _)
Join(parts, sep) ==
    IF parts = <<>> THEN <<>>
    ELSE IF Len(parts) = 1 THEN parts[1]
    ELSE parts[1] \o <<sep>> \o Join(Tail(parts), sep)

DigitChars == <<"0", "1", "2", "3", "4", "5", "6", "7", "8", "9">>

RECURSIVE IntToStr(_)
\* str(n) for n >= 0
IntToStr(n) ==
    IF n < 10 THEN <<DigitChars[n + 1]>>
    ELSE IntToStr(n \div 10) \o <<DigitChars[(n % 10) + 1]>>

\* all sequences over S of length lo..hi
SeqsOf(S, lo, hi) == UNION {[1..n -> S] : n \in lo..hi}

Min(a, b) == IF a < b THEN a ELSE b

(***************************************************************************)
(* extract_morphemes.  A token is a record of the attributes the code      *)
(* reads: text, pos_, dep_, is_punct, is_space and the pos_ of each of its *)
(* ancestors (token.head.text is copied into the compound and never read,  *)
(* so it is left out).                                                     *)
(***************************************************************************)
Token(text, pos, dep, ancestors, punct, space) ==
    [text |-> text, pos_ |-> pos, dep_ |-> dep, ancestors |-> ancestors,
     is_punct |-> punct, is_space |-> space]

\* the condition of the first if
IsCandidate(token) ==
    /\ token.pos_ \in {"NOUN", "VERB", "ADJ"}
    /\ Len(token.text) >= MinLen
    /\ ~token.is_punct
    /\ ~token.is_space

Compound(token) == [text |-> token.text, pos |-> token.pos_, dep |-> token.dep_]

\* any(ancestor.pos_ == "NOUN" for ancestor in token.ancestors)
HasNounAncestor(token) ==
    \E k \in 1..Len(token.ancestors) : token.ancestors[k] = "NOUN"

AcceptsDuplicates(cs, token) ==
    \/ token.dep_ \in {"nsubj", "dobj", "compound"}
    \/ HasNounAncestor(token)

\* the condition of the second if
Accepts(cs, token) ==
    /\ \A k \in 1..Len(cs) : cs[k].text # token.text
    /\ \/ token.dep_ \in {"nsubj", "dobj", "compound"}
       \/ HasNounAncestor(token)

RECURSIVE CollectCompounds(_, _)
\* the for loop over doc
CollectCompounds(tokens, cs) ==
    IF tokens = <<>> THEN cs
    ELSE LET token == Head(tokens)
         IN  CollectCompounds(Tail(tokens),
                 IF IsCandidate(token) /\ Accepts(cs, token)
                 THEN Append(cs, Compound(token))
                 ELSE cs)

\* the sort key
SortKey(x) == <<x.pos = "NOUN", Len(x.text), x.dep \in {"nsubj", "dobj"}>>

BoolRank(b) == IF b THEN 1 ELSE 0

\* Python's tuple order on two sort keys: SortKey(x) < SortKey(y)
KeyLess(x, y) ==
    LET kx == SortKey(x)
        ky == SortKey(y)
    IN  \/ BoolRank(kx[1]) < BoolRank(ky[1])
        \/ /\ kx[1] = ky[1]
           /\ \/ kx[2] < ky[2]
              \/ kx[2] = ky[2] /\ BoolRank(kx[3]) < BoolRank(ky[3])

RECURSIVE InsertSortedUnstable(_, _)
InsertSortedUnstable(sorted, x) ==
    IF sorted = <<>> THEN <<x>>
    ELSE IF ~KeyLess(x, Head(sorted)) THEN <<x>> \o sorted
    ELSE <<Head(sorted)>> \o InsertSortedUnstable(Tail(sorted), x)

RECURSIVE InsertSorted(_, _)
\* the place of x among the compounds sorted so far: after every compound
\* whose key is not less than its own
InsertSorted(sorted, x) ==
    IF sorted = <<>> THEN <<x>>
    ELSE IF KeyLess(Head(sorted), x) THEN <<x>> \o sorted
    ELSE <<Head(sorted)>> \o InsertSorted(Tail(sorted), x)

RECURSIVE SortInto(_, _)
SortInto(cs, sorted) ==
    IF cs = <<>> THEN sorted
    ELSE SortInto(Tail(cs), InsertSorted(sorted, Head(cs)))

\* compounds.sort(key=..., reverse=True): descending and stable
SortCompounds(cs) == SortInto(cs, <<>>)

\* the draws explored for random's randbelow(n): the first MaxDraw values and
\* the largest one
RandBelow(n) == {r \in 0..(n - 1) : r < MaxDraw \/ r = n - 1}

RECURSIVE DrawSeqs(_, _)
DrawSeqs(n, k) ==
    IF k = 0 THEN {<<>>}
    ELSE {<<r>> \o rest : r \in RandBelow(n), rest \in DrawSeqs(n - 1, k - 1)}

RECURSIVE SampleFrom(_, _, _)
\* the selection loop of random.sample: result[t] = pool[j]; pool[j] = pool[n-t-1]
SampleFrom(pool, k, draws) ==
    IF k = 0 THEN <<>>
    ELSE LET n == Len(pool)
             j == draws[1] + 1
             rest == SubSeq([pool EXCEPT ![j] = pool[n]], 1, n - 1)
         IN  <<pool[j]>> \o SampleFrom(rest, k - 1, Tail(draws))

Returned(value) == [raised |-> FALSE, value |-> value]
Raised == [raised |-> TRUE, value |-> <<>>]

\* random.sample(population, k): the outcomes; ValueError when the sample is
\* larger than the population
RandomSample(population, k) ==
    IF k > Len(population) \/ k < 0 THEN {Raised}
    ELSE {Returned(SampleFrom(population, k, draws)) :
              draws \in DrawSeqs(Len(population), k)}

\* morphemes = [c["text"] for c in compounds]
Texts(cs) == [k \in 1..Len(cs) |-> cs[k].text]

\* the outcomes of the last three lines, on the sorted compounds
SampleMorphemes(cs, num) ==
    LET morphemes == Texts(cs)
    IN  IF Len(morphemes) < num THEN {Returned(morphemes)}
        ELSE RandomSample(SubSeq(morphemes, 1, Min(TopN, Len(morphemes))), num)

\* the outcomes of extract_morphemes on the tokens nlp(text) gave
extract_morphemes(tokens, num) ==
    SampleMorphemes(SortCompounds(CollectCompounds(tokens, <<>>)), num)

(***************************************************************************)
(* generate_alternatives and generate_chinese_response.  An oracle answer  *)
(* is a record: ok = FALSE when model.generate_content (or .text) raised.  *)
(***************************************************************************)
Answer(text) == [ok |-> TRUE, text |-> text]
NoAnswer == [ok |-> FALSE, text |-> <<>>]

\* alternatives[:3]
FirstThree(parts) == SubSeq(parts, 1, Min(MaxAlternatives, Len(parts)))

\* [alt.strip() for alt in response.text.strip().split("|")[:3]]
ParseAlternatives(text) ==
    LET parts == FirstThree(Split(Strip(text), "|"))
    IN  [k \in 1..Len(parts) |-> Strip(parts[k])]

generate_alternatives(answer) ==
    IF answer.ok THEN ParseAlternatives(answer.text) ELSE <<>>

generate_chinese_response(answer) ==
    IF answer.ok THEN Strip(answer.text) ELSE <<>>

\* " (i) "
Placeholder(idx) == <<" ", "(">> \o IntToStr(idx) \o <<")", " ">>

\* masked_text.replace(morpheme, f" ({i}) ")
MaskOne(text, m, idx) == Replace(text, m, Placeholder(idx))

AppendItemAlways(items, m, alternatives) ==
    Append(items, [original_morpheme |-> m, alternatives |-> alternatives])

\* the body of "if alternatives:"
AppendItem(items, m, alternatives) ==
    IF alternatives # <<>>
    THEN Append(items, [original_morpheme |-> m, alternatives |-> alternatives])
    ELSE items

\* main: the label printed for the item at 1-based position p ("Question {i - 1}")
QuestionLabel(p) == p - 1

(***************************************************************************)
(* The oracles' answers explored.                                          *)
(***************************************************************************)
PassageAlphabet == {"a", "b", " "}

\* model.generate_content for the passage: it raises, or returns a text
PassageAnswers ==
    {NoAnswer} \cup {Answer(t) : t \in SeqsOf(PassageAlphabet, 0, MaxPassageLen)}

RECURSIVE Segmentations(_)
\* the ways nlp can cut a text into tokens: whitespace separates tokens, and a
\* run of other characters is cut anywhere
Segmentations(s) ==
    IF s = <<>> THEN {<<>>}
    ELSE IF IsSpace(Head(s)) THEN Segmentations(Tail(s))
    ELSE UNION {{<<SubSeq(s, 1, n)>> \o rest :
                     rest \in Segmentations(SubSeq(s, n + 1, Len(s)))} :
                n \in {n \in 1..Len(s) : \A k \in 1..n : ~IsSpace(s[k])}}

\* the annotations nlp can give a token of the passage: one the ranking puts
\* first, one it puts last, one the filter refuses
PipelineAnnots ==
    {[pos |-> "NOUN", dep |-> "nsubj", ancestors |-> <<>>],
     [pos |-> "VERB", dep |-> "dobj", ancestors |-> <<>>],
     [pos |-> "ADJ", dep |-> "amod", ancestors |-> <<"VERB">>]}

\* nlp(text): the docs it can return
Annotate(text) ==
    UNION {{[k \in 1..Len(seg) |->
                Token(seg[k], f[k].pos, f[k].dep, f[k].ancestors, FALSE, FALSE)] :
            f \in [1..Len(seg) -> PipelineAnnots]} :
           seg \in Segmentations(text)}

\* the first part of a distractor answer: the morpheme itself, or another word
AltParts(m) == {m, <<" ", "c">>}

\* a distractor answer of n parts: a first part and n - 1 other words
AltText(first, n) == Join(<<first>> \o [k \in 1..(n - 1) |-> <<" ", "d">>], "|")

\* model.generate_content for the alternatives of m: it raises, or returns a text
DistractorAnswers(m) ==
    {NoAnswer, Answer(<<>>)}
        \cup {Answer(AltText(first, n)) : first \in AltParts(m), n \in 1..MaxParts}

(***************************************************************************)
(* create_quiz                                                             *)
(***************************************************************************)
EmptyQuiz == << <<>>, <<>>, <<>> >>

IsEmptyIgnored(text) == FALSE

\* Python's "not response" for a str
IsEmpty(text) == text = <<>>

Init ==
    /\ pc = "generate"
    /\ oracle_text = NoAnswer
    /\ response = <<>>
    /\ target_morphemes = <<>>
    /\ i = 0
    /\ quiz_items = <<>>
    /\ masked_text = <<>>
    /\ ret = <<>>
    /\ nlp_calls = 0
    /\ alt_calls = 0
    /\ failed = {}
    /\ substituted = {}
    /\ doc = <<>>
    /\ num_morphemes = DefaultNumMorphemes
    /\ compounds = <<>>
    /\ ranked = <<>>
    /\ selected = Returned(<<>>)
    /\ prev_text = <<>>
    /\ morpheme = <<>>
    /\ index = 0

\* response = generate_chinese_response(prompt); if not response: return "", [], ""
Generate ==
    /\ pc = "generate"
    /\ \E answer \in PassageAnswers :
        LET text == generate_chinese_response(answer)
        IN  /\ oracle_text' = answer
            /\ response' = text
            /\ IF IsEmpty(text)
               THEN pc' = "done" /\ ret' = EmptyQuiz
               ELSE pc' = "extract" /\ ret' = ret
    /\ UNCHANGED <<target_morphemes, i, quiz_items, masked_text, nlp_calls,
                   alt_calls, failed, substituted>>
    /\ UNCHANGED selectVars
    /\ UNCHANGED maskVars

\* target_morphemes = extract_morphemes(response); quiz_items = [];
\* masked_text = response
Extract ==
    /\ pc = "extract"
    /\ nlp_calls' = nlp_calls + 1
    /\ \E tokens \in Annotate(response) :
        \E out \in extract_morphemes(tokens, DefaultNumMorphemes) :
            /\ pc' = IF out.raised THEN "raised" ELSE "loop"
            /\ target_morphemes' = out.value
    /\ quiz_items' = <<>>
    /\ masked_text' = response
    /\ i' = 0
    /\ UNCHANGED <<oracle_text, response, ret, alt_calls, failed, substituted>>
    /\ UNCHANGED selectVars
    /\ UNCHANGED maskVars

\* one iteration of "for i, morpheme in enumerate(target_morphemes)"
Loop ==
    /\ pc = "loop"
    /\ i < Len(target_morphemes)
    /\ LET m == target_morphemes[i + 1]
       IN  /\ \E answer \in DistractorAnswers(m) :
                /\ quiz_items' = AppendItem(quiz_items, m, generate_alternatives(answer))
                /\ failed' = IF answer.ok THEN failed ELSE failed \cup {i}
           /\ masked_text' = MaskOne(masked_text, m, i)
           /\ substituted' = IF Contains(masked_text, m)
                             THEN substituted \cup {<<i, m>>}
                             ELSE substituted
    /\ alt_calls' = alt_calls + 1
    /\ i' = i + 1
    /\ UNCHANGED <<pc, oracle_text, response, target_morphemes, ret, nlp_calls>>
    /\ UNCHANGED selectVars
    /\ UNCHANGED maskVars

\* return response, quiz_items, masked_text
Return ==
    /\ pc = "loop"
    /\ i = Len(target_morphemes)
    /\ ret' = <<response, quiz_items, masked_text>>
    /\ pc' = "done"
    /\ UNCHANGED <<oracle_text, response, target_morphemes, i, quiz_items,
                   masked_text, nlp_calls, alt_calls, failed, substituted>>
    /\ UNCHANGED selectVars
    /\ UNCHANGED maskVars

Next == Generate \/ Extract \/ Loop \/ Return

Spec == Init /\ [][Next]_vars

(***************************************************************************)
(* extract_morphemes on its own: the token sequences and the num_morphemes *)
(* explored.  A token sequence is a few free tokens followed by the first  *)
(* tokens of a corpus of distinct eligible words.                          *)
(***************************************************************************)
Letters == <<"a", "b", "c", "d">>

\* the n-th word of the corpus: two letters, every third word one longer
CorpusText(n) ==
    <<Letters[(((n - 1) \div 4) % 4) + 1], Letters[((n - 1) % 4) + 1]>>
        \o (IF n % 3 = 0 THEN <<"e">> ELSE <<>>)

CorpusPos == <<"NOUN", "VERB", "ADJ", "NOUN", "NOUN">>
CorpusDep == <<"nsubj", "dobj", "compound", "amod">>

\* the n-th token of the corpus; each is accepted by the filter
CorpusToken(n) ==
    Token(CorpusText(n), CorpusPos[(n % 5) + 1], CorpusDep[(n % 4) + 1],
          <<"VERB", "NOUN">>, FALSE, FALSE)

Corpus(n) == [k \in 1..n |-> CorpusToken(k)]

\* free tokens: every way the filter can refuse a token, and two it accepts
HeadTokens ==
    {Token(<<"x", "y">>, "NOUN", "nsubj", <<>>, FALSE, FALSE),
     Token(<<"x", "y", "z">>, "VERB", "ROOT", <<"VERB", "NOUN">>, FALSE, FALSE),
     Token(<<"x", "y">>, "NOUN", "ROOT", <<"VERB">>, FALSE, FALSE),
     Token(<<"x", "y">>, "ADV", "nsubj", <<"NOUN">>, FALSE, FALSE),
     Token(<<"x">>, "NOUN", "nsubj", <<>>, FALSE, FALSE),
     Token(<<",", ",">>, "NOUN", "nsubj", <<>>, TRUE, FALSE),
     Token(<<" ", " ">>, "NOUN", "nsubj", <<>>, FALSE, TRUE),
     Token(CorpusText(2), "NOUN", "dobj", <<>>, FALSE, FALSE)}

SelectDocs ==
    {head \o Corpus(n) : head \in SeqsOf(HeadTokens, 0, MaxHead), n \in 0..MaxFiller}

InitSelect ==
    /\ pc = "filter"
    /\ doc \in SelectDocs
    /\ num_morphemes \in 0..MaxCount
    /\ compounds = <<>>
    /\ ranked = <<>>
    /\ selected = Returned(<<>>)
    /\ oracle_text = NoAnswer
    /\ response = <<>>
    /\ target_morphemes = <<>>
    /\ i = 0
    /\ quiz_items = <<>>
    /\ masked_text = <<>>
    /\ ret = <<>>
    /\ nlp_calls = 0
    /\ alt_calls = 0
    /\ failed = {}
    /\ substituted = {}
    /\ prev_text = <<>>
    /\ morpheme = <<>>
    /\ index = 0

\* extract_morphemes(text, num_morphemes), doc being nlp(text): the filter loop
Filter ==
    /\ pc = "filter"
    /\ compounds' = CollectCompounds(doc, <<>>)
    /\ pc' = "sort"
    /\ UNCHANGED <<doc, num_morphemes, ranked, selected, masked_text>>
    /\ UNCHANGED pipelineVars
    /\ UNCHANGED maskVars

\* compounds.sort(...)
Sort ==
    /\ pc = "sort"
    /\ ranked' = SortCompounds(compounds)
    /\ pc' = "sample"
    /\ UNCHANGED <<doc, num_morphemes, compounds, selected, masked_text>>
    /\ UNCHANGED pipelineVars
    /\ UNCHANGED maskVars

\* the return, or the sample and its return
Sample ==
    /\ pc = "sample"
    /\ selected' \in SampleMorphemes(ranked, num_morphemes)
    /\ pc' = "selected"
    /\ UNCHANGED <<doc, num_morphemes, compounds, ranked, masked_text>>
    /\ UNCHANGED pipelineVars
    /\ UNCHANGED maskVars

NextSelect == Filter \/ Sort \/ Sample

SpecSelect == InitSelect /\ [][NextSelect]_vars

(***************************************************************************)
(* The filter and ranking stages on every short token sequence over a set  *)
(* of tokens that varies each attribute the two stages read.               *)
(***************************************************************************)
RankTexts == {<<"x", "y">>, <<"u", "v">>, <<"x", "y", "z">>}

\* dependency role and ancestors: core role, compound, neither with and
\* without a noun ancestor
RankRoles ==
    {[dep |-> "nsubj", ancestors |-> <<>>],
     [dep |-> "compound", ancestors |-> <<>>],
     [dep |-> "ROOT", ancestors |-> <<"VERB">>],
     [dep |-> "ROOT", ancestors |-> <<"VERB", "NOUN">>]}

RankTokens ==
    {Token(t, p, r.dep, r.ancestors, FALSE, FALSE) :
         t \in RankTexts, p \in {"NOUN", "VERB"}, r \in RankRoles}
    \cup {Token(<<"u", "v">>, "ADJ", "dobj", <<>>, FALSE, FALSE),
          Token(<<"u", "v">>, "ADV", "nsubj", <<"NOUN">>, FALSE, FALSE),
          Token(<<"x">>, "NOUN", "nsubj", <<"NOUN">>, FALSE, FALSE),
          Token(<<",", ",">>, "NOUN", "nsubj", <<"NOUN">>, TRUE, FALSE),
          Token(<<" ", " ">>, "NOUN", "nsubj", <<"NOUN">>, FALSE, TRUE)}

InitRank ==
    /\ pc = "filter"
    /\ doc \in SeqsOf(RankTokens, 0, MaxTokens)
    /\ num_morphemes = DefaultNumMorphemes
    /\ compounds = <<>>
    /\ ranked = <<>>
    /\ selected = Returned(<<>>)
    /\ oracle_text = NoAnswer
    /\ response = <<>>
    /\ target_morphemes = <<>>
    /\ i = 0
    /\ quiz_items = <<>>
    /\ masked_text = <<>>
    /\ ret = <<>>
    /\ nlp_calls = 0
    /\ alt_calls = 0
    /\ failed = {}
    /\ substituted = {}
    /\ prev_text = <<>>
    /\ morpheme = <<>>
    /\ index = 0

SpecRank == InitRank /\ [][NextSelect]_vars

(***************************************************************************)
(* The masking step on its own: masked_text.replace(morpheme, f" ({i}) ")  *)
(* applied to a text, a morpheme and a processing index.                   *)
(***************************************************************************)
MaskAlphabet == {"a", " ", "(", ")", "0"}
MaskTexts == SeqsOf(MaskAlphabet, 0, MaxTextLen)

\* morphemes: at least MinLen characters, no whitespace (a token with
\* whitespace is_space and is refused by the filter)
MaskMorphemes == SeqsOf({"a"}, MinLen, MinLen + 1)

\* processing indices given to the step; the texts hold the digit "0" only
MaskIndexes == 0..1

InitMask ==
    /\ pc = "mask"
    /\ masked_text \in MaskTexts
    /\ morpheme \in MaskMorphemes
    /\ index \in MaskIndexes
    /\ prev_text = <<>>
    /\ doc = <<>>
    /\ num_morphemes = DefaultNumMorphemes
    /\ compounds = <<>>
    /\ ranked = <<>>
    /\ selected = Returned(<<>>)
    /\ oracle_text = NoAnswer
    /\ response = <<>>
    /\ target_morphemes = <<>>
    /\ i = 0
    /\ quiz_items = <<>>
    /\ ret = <<>>
    /\ nlp_calls = 0
    /\ alt_calls = 0
    /\ failed = {}
    /\ substituted = {}

Mask ==
    /\ pc = "mask"
    /\ prev_text' = masked_text
    /\ masked_text' = MaskOne(masked_text, morpheme, index)
    /\ pc' = "masked"
    /\ UNCHANGED <<morpheme, index>>
    /\ UNCHANGED pipelineVars
    /\ UNCHANGED selectVars

NextMask == Mask

SpecMask == InitMask /\ [][NextMask]_vars

(***************************************************************************)
(* Properties of create_quiz (Spec)                                        *)
(***************************************************************************)
QuizReturned == pc = "done" /\ ret # <<>>

\* the item main prints under label idx, if any, is the item of morpheme m
ItemAt(items, idx, m) ==
    \E p \in 1..Len(items) :
        QuestionLabel(p) = idx /\ items[p].original_morpheme = m

\* C1: in every result of create_quiz, each placeholder " (i) " substituted
\* for a morpheme m has a quiz item at index i whose original_morpheme is m.
C1_MaskedHasItem ==
    QuizReturned => \A s \in substituted : ItemAt(ret[2], s[1], s[2])

\* C2: in every quiz item, original_morpheme is not among its alternatives.
C2_OriginalNotInAlternatives ==
    \A p \in 1..Len(quiz_items) :
        \A k \in 1..Len(quiz_items[p].alternatives) :
            quiz_items[p].alternatives[k] # quiz_items[p].original_morpheme

\* the passage oracle raised, or its text is empty or whitespace only
PassageFailed ==
    \/ ~oracle_text.ok
    \/ \A k \in 1..Len(oracle_text.text) : IsSpace(oracle_text.text[k])

RECURSIVE Survivors(_, _, _)
\* the morphemes whose processing index (from idx on) is not in skip, in order
Survivors(morphemes, idx, skip) ==
    IF morphemes = <<>> THEN <<>>
    ELSE (IF idx \in skip THEN <<>> ELSE <<Head(morphemes)>>)
             \o Survivors(Tail(morphemes), idx + 1, skip)

ItemMorphemes(items) == [p \in 1..Len(items) |-> items[p].original_morpheme]

C5_PassageFailureAborts ==
    /\ pc # "raised"
    /\ PassageFailed /\ pc # "generate" =>
        pc = "done" /\ ret = EmptyQuiz /\ nlp_calls = 0 /\ alt_calls = 0
    /\ (QuizReturned /\ ~PassageFailed) =>
        /\ ret # EmptyQuiz
        /\ ret[1] = Strip(oracle_text.text)
        /\ nlp_calls = 1
        /\ alt_calls = Len(target_morphemes)

\* the oracle raised and the run returned the empty quiz
C5_Witness == pc = "done" /\ ~oracle_text.ok /\ ret = EmptyQuiz

\* C10: in every result of create_quiz, each quiz item has a visible blank:
\* a processed morpheme with index k that occurs in the passage and produced
\* a quiz item has its placeholder " (k) " in the masked passage.
C10_ItemHasBlank ==
    QuizReturned =>
        \A k \in 0..(Len(target_morphemes) - 1) :
            LET m == target_morphemes[k + 1]
            IN  (/\ Contains(ret[1], m)
                 /\ \E p \in 1..Len(ret[2]) : ret[2][p].original_morpheme = m)
                    => Contains(ret[3], Placeholder(k))

(***************************************************************************)
(* Properties of extract_morphemes (SpecSelect, SpecRank)                  *)
(***************************************************************************)
\* conditions (a), (b), (c) and (e) of the filter stage
Eligible(token) ==
    /\ token.pos_ = "NOUN" \/ token.pos_ = "VERB" \/ token.pos_ = "ADJ"
    /\ Len(token.text) > 1
    /\ ~(token.is_punct \/ token.is_space)
    /\ \/ token.dep_ = "nsubj" \/ token.dep_ = "dobj" \/ token.dep_ = "compound"
       \/ "NOUN" \in {token.ancestors[a] : a \in 1..Len(token.ancestors)}

RECURSIVE AcceptedAt(_)
\* the k-th token of doc is a candidate: eligible, and no accepted token
\* before it has its text
AcceptedAt(k) ==
    /\ Eligible(doc[k])
    /\ \A j \in 1..(k - 1) : AcceptedAt(j) => doc[j].text # doc[k].text

\* C8: after the filter loop, compounds holds exactly the tokens that are
\* candidates, in encounter order; so no two compounds share a text.
C8_FilterAcceptsExactly ==
    pc # "filter" =>
        LET accepted == {k \in 1..Len(doc) : AcceptedAt(k)}
        IN  /\ Len(compounds) = Cardinality(accepted)
            /\ \A k \in accepted :
                   LET c == compounds[Cardinality({j \in accepted : j <= k})]
                   IN  /\ c.text = doc[k].text
                       /\ c.pos = doc[k].pos_
                       /\ c.dep = doc[k].dep_
            /\ \A p, q \in 1..Len(compounds) :
                   p # q => compounds[p].text # compounds[q].text

\* three eligible tokens of one text after a refused token of that text: the
\* second token is the only candidate
C8_Witness ==
    /\ pc = "sort"
    /\ Len(doc) = 3
    /\ doc[1].text = doc[2].text /\ doc[2].text = doc[3].text
    /\ ~Eligible(doc[1]) /\ Eligible(doc[2]) /\ Eligible(doc[3])
    /\ doc[2].pos_ # doc[3].pos_
    /\ Len(compounds) = 1

IsNoun(x) == x.pos = "NOUN"
IsCore(x) == x.dep = "nsubj" \/ x.dep = "dobj"

\* x ranks strictly above y: noun above non-noun, then longer above shorter,
\* then core role above the other roles
RanksAbove(x, y) ==
    \/ IsNoun(x) /\ ~IsNoun(y)
    \/ /\ IsNoun(x) = IsNoun(y)
       /\ \/ Len(x.text) > Len(y.text)
          \/ Len(x.text) = Len(y.text) /\ IsCore(x) /\ ~IsCore(y)

PlaceIn(cs, x) == CHOOSE p \in 1..Len(cs) : cs[p] = x

\* C9: after the sort, ranked holds the compounds of the filter stage, none
\* ranking above an earlier one, and those of equal key in encounter order.
C9_RankingOrder ==
    pc \in {"sample", "selected"} =>
        /\ Len(ranked) = Len(compounds)
        /\ \A p \in 1..Len(ranked) : \E q \in 1..Len(compounds) : compounds[q] = ranked[p]
        /\ \A p, q \in 1..Len(ranked) :
               p < q =>
                   /\ ranked[p] # ranked[q]
                   /\ ~RanksAbove(ranked[q], ranked[p])
                   /\ ~RanksAbove(ranked[p], ranked[q])
                          => PlaceIn(compounds, ranked[p]) < PlaceIn(compounds, ranked[q])

\* the example: (noun, 2, subject), (verb, 2, other), (noun, 3, other) ranked
\* as third, first, second
C9_Witness ==
    /\ pc = "sample"
    /\ compounds = <<[text |-> <<"x", "y">>, pos |-> "NOUN", dep |-> "nsubj"],
                     [text |-> <<"u", "v">>, pos |-> "VERB", dep |-> "ROOT"],
                     [text |-> <<"x", "y", "z">>, pos |-> "NOUN", dep |-> "ROOT"]>>
    /\ Texts(ranked) = <<<<"x", "y", "z">>, <<"x", "y">>, <<"u", "v">>>>

\* the top TopN ranked candidates
Pool(tokens) ==
    LET morphemes == Texts(SortCompounds(CollectCompounds(tokens, <<>>)))
    IN  SubSeq(morphemes, 1, Min(TopN, Len(morphemes)))

\* C3: the selector returns the whole pool unchanged when the pool has at
\* most num_morphemes entries, and otherwise exactly num_morphemes distinct
\* entries of the pool.
C3_SamplingLaw ==
    pc = "selected" =>
        /\ ~selected.raised
        /\ IF Len(Pool(doc)) <= num_morphemes
           THEN selected.value = Pool(doc)
           ELSE /\ Len(selected.value) = num_morphemes
                /\ \A p, q \in 1..Len(selected.value) :
                       p # q => selected.value[p] # selected.value[q]
                /\ \A p \in 1..Len(selected.value) :
                       \E q \in 1..Len(Pool(doc)) : selected.value[p] = Pool(doc)[q]

\* C6: the selector never raises, and returns the empty list when no token
\* is an eligible candidate.
C6_SelectNeverRaises ==
    pc = "selected" =>
        /\ ~selected.raised
        /\ (\A k \in 1..Len(doc) : ~(IsCandidate(doc[k]) /\ Accepts(<<>>, doc[k])))
               => selected.value = <<>>

(***************************************************************************)
(* Properties of the masking step (SpecMask)                               *)
(***************************************************************************)
\* the step replaced each of the k occurrences of the morpheme: the result
\* holds the placeholder k times and the morpheme nowhere
EveryOccurrenceMasked ==
    /\ Count(masked_text, Placeholder(index)) = Count(prev_text, morpheme)
    /\ ~Contains(masked_text, morpheme)

PlaceholderCore(idx) == <<"(">> \o IntToStr(idx) \o <<")">>

====
